---------------------------- MODULE Spec2Model ----------------------------
(***************************************************************************)
(* Narration session controller of Storyspire (services/tts, shipped here  *)
(* as src/services/openrouter.ts lines 104-633): chunked text-to-speech    *)
(* playback on top of expo-speech.                                         *)
(*                                                                         *)
(* A text is a sequence of one-character strings.  The module state of    *)
(* the controller (lines 120-134) is the controller part of the state;     *)
(* the speech engine is a FIFO queue of utterances and the suspended       *)
(* async calls (each parked at its `await Speech.stop()` or                 *)
(* `await Speech.resume()`) are a FIFO queue of continuations.             *)
(***************************************************************************)
EXTENDS Integers, Sequences, FiniteSets, TLC

VARIABLES
    platform,              \* Platform.OS: "android" | "ios"
    isPlaying,             \* line 121
    isPaused,              \* line 122
    currentText,           \* line 123
    chunks,                \* line 124
    currentChunkIndex,     \* line 125
    sessionId,             \* line 126
    playbackPromise,       \* lines 127-128: TRUE iff a completion promise is pending
    currentPreferences,    \* line 129
    chunkStartPrefs,       \* lines 131-132: NoRec, or the prefs snapshot taken with chunkStartTime
    overrideFirstChunk,    \* line 133
    isInitiatingPlayback,  \* line 134
    engine,                \* utterances handed to Speech.speak whose terminal callback is not yet delivered
    tasks,                 \* async calls suspended at an await, in the order their awaited promises were issued
    ev,                    \* history: what the last step was and what it did
    pauseAt,               \* history: chunk index at which an undisturbed playing session was paused, or -1
    limits                 \* the bounds this behaviour is explored under (fixed by the initial state)

ctrl == <<isPlaying, isPaused, currentText, chunks, currentChunkIndex, sessionId,
          playbackPromise, currentPreferences, chunkStartPrefs, overrideFirstChunk,
          isInitiatingPlayback>>

vars == <<platform, isPlaying, isPaused, currentText, chunks, currentChunkIndex, sessionId,
          playbackPromise, currentPreferences, chunkStartPrefs, overrideFirstChunk,
          isInitiatingPlayback, engine, tasks, ev, pauseAt, limits>>

\* absent values: null for a string, null/undefined for an object, no call
NoText == <<>>
NoRec == [none |-> TRUE]
None == "none"

\* ------------------------------------------------------------------ bounds

\* sessionId is unbounded in the code; calls that bump it are not issued beyond this value
MaxSession == 2
\* number of async calls that may be suspended at an await at the same time
MaxTasks == 1
\* number of utterances whose terminal callback the engine still owes
MaxEngine == 1
\* the same three bounds for the wider exploration SpecWide
WideSession == 3
WideTasks == 2
WideEngine == 2
\* the chunker is explored on every text of at most MaxTextLen characters and on
\* unpunctuated runs of at most MaxRunLen characters
MaxTextLen == 8
MaxRunLen == 19

\* ------------------------------------------------------------------ chunker

\* const MAX_CHUNK_LEN = 600, scaled by 1/100 so that short texts span several chunks
MAX_CHUNK_LEN == 6

IsSpace(c) == c \in {" ", "\n", "\t"}

IsBoundary(c) == c \in {".", "!", "?"}

\* text.replace(/\s+/g, ' '): every run of whitespace becomes one space
RECURSIVE CollapseFrom(_, _, _)
CollapseFrom(s, i, acc) ==
    IF i > Len(s) THEN acc
    ELSE IF IsSpace(s[i])
         THEN IF i > 1 /\ IsSpace(s[i - 1])
              THEN CollapseFrom(s, i + 1, acc)
              ELSE CollapseFrom(s, i + 1, Append(acc, " "))
         ELSE CollapseFrom(s, i + 1, Append(acc, s[i]))

Collapse(s) == CollapseFrom(s, 1, <<>>)

\* String.prototype.trim
Trim(s) ==
    LET keep == {i \in 1..Len(s) : ~IsSpace(s[i])}
    IN  IF keep = {} THEN <<>>
        ELSE LET lo == CHOOSE i \in keep : \A j \in keep : i <= j
                 hi == CHOOSE i \in keep : \A j \in keep : j <= i
             IN  SubSeq(s, lo, hi)

\* normalized.split(/(?<=[.!?])\s+/): cut at every whitespace run that follows . ! or ?
RECURSIVE SplitFrom(_, _, _, _)
SplitFrom(s, i, cur, acc) ==
    IF i > Len(s) THEN Append(acc, cur)
    ELSE IF IsSpace(s[i]) /\ i > 1 /\ IsBoundary(s[i - 1])
         THEN LET rest == {j \in i..Len(s) : ~IsSpace(s[j])}
                  nxt == IF rest = {} THEN Len(s) + 1
                         ELSE CHOOSE j \in rest : \A k \in rest : j <= k
              IN  SplitFrom(s, nxt, <<>>, Append(acc, cur))
         ELSE SplitFrom(s, i + 1, Append(cur, s[i]), acc)

SplitSentences(s) == SplitFrom(s, 1, <<>>, <<>>)

\* s.slice(i, i + MAX_CHUNK_LEN) for i = 0, MAX_CHUNK_LEN, ...
RECURSIVE HardSplit(_)
HardSplit(s) ==
    IF Len(s) = 0 THEN <<>>
    ELSE IF Len(s) <= MAX_CHUNK_LEN THEN <<s>>
    ELSE <<SubSeq(s, 1, MAX_CHUNK_LEN)>> \o HardSplit(SubSeq(s, MAX_CHUNK_LEN + 1, Len(s)))

\* the for-loop of buildChunks over the sentences, with its buffer and output
RECURSIVE Accumulate(_, _, _, _)
Accumulate(sentences, i, buf, out) ==
    IF i > Len(sentences)
    THEN IF buf # <<>> THEN Append(out, Trim(buf)) ELSE out
    ELSE LET s == sentences[i]
         IN  IF Len(Trim(buf \o <<" ">> \o s)) > MAX_CHUNK_LEN
             THEN LET flushed == IF buf # <<>> THEN Append(out, Trim(buf)) ELSE out
                  IN  IF Len(s) > MAX_CHUNK_LEN
                      THEN Accumulate(sentences, i + 1, <<>>, flushed \o HardSplit(s))
                      ELSE Accumulate(sentences, i + 1, s, flushed)
             ELSE Accumulate(sentences, i + 1,
                             (IF buf # <<>> THEN buf \o <<" ">> ELSE <<>>) \o s, out)

\* the loop of buildChunks without the final `if (buf) out.push(buf.trim())`
RECURSIVE AccumulateNoFlush(_, _, _, _)
AccumulateNoFlush(sentences, i, buf, out) ==
    IF i > Len(sentences)
    THEN out
    ELSE LET s == sentences[i]
         IN  IF Len(Trim(buf \o <<" ">> \o s)) > MAX_CHUNK_LEN
             THEN LET flushed == IF buf # <<>> THEN Append(out, Trim(buf)) ELSE out
                  IN  IF Len(s) > MAX_CHUNK_LEN
                      THEN AccumulateNoFlush(sentences, i + 1, <<>>, flushed \o HardSplit(s))
                      ELSE AccumulateNoFlush(sentences, i + 1, s, flushed)
             ELSE AccumulateNoFlush(sentences, i + 1,
                                    (IF buf # <<>> THEN buf \o <<" ">> ELSE <<>>) \o s, out)

\* a chunker that forgets the sentences still in its buffer at the end
buildChunksNoFlush(text) ==
    LET normalized == Trim(Collapse(text))
    IN  IF normalized = <<>> THEN <<>>
        ELSE AccumulateNoFlush(SplitSentences(normalized), 1, <<>>, <<>>)

\* a chunker that makes one chunk of every sentence, however long
buildChunksUnsplit(text) ==
    LET normalized == Trim(Collapse(text))
    IN  IF normalized = <<>> THEN <<>>
        ELSE SplitSentences(normalized)

buildChunks(text) ==
    LET normalized == Trim(Collapse(text))
    IN  IF normalized = <<>> THEN <<>>
        ELSE Accumulate(SplitSentences(normalized), 1, <<>>, <<>>)

\* ------------------------------------------------------------------ inputs

\* "a b.  c d.\ne f."  (three chunks of two words each)
StoryA == <<"a", " ", "b", ".", " ", " ", "c", " ", "d", ".", "\n", "e", " ", "f", ".">>
\* "g h j. i."  (two chunks, of three words and of one word)
StoryB == <<"g", " ", "h", " ", "j", ".", " ", "i", ".">>

Texts == {StoryA, StoryB}

\* the texts handed to the chunker: every string over a letter, a space and a full
\* stop up to MaxTextLen characters, and the longer runs of the letter alone
ChunkerAlphabet == {"a", " ", "."}
ChunkerTexts ==
    UNION {[1..n -> ChunkerAlphabet] : n \in 0..MaxTextLen}
      \cup {[i \in 1..n |-> "a"] : n \in (MaxTextLen + 1)..MaxRunLen}

\* the optional `preferences` argument: undefined, or an object; fields may be absent
NoPrefs == NoRec
PrefArgs == {[voice |-> "v1"]}

\* milliseconds between the start of a chunk and a preference change
ElapsedMs == {200, 400, 900}


\* ------------------------------------------------------------------ state as a record

\* The handlers below are written as functions on a record `c` holding the
\* module state, the engine queue and what the running step has done so far
\* (spoke: the utterance handed to Speech.speak, resolved: playbackResolve ran,
\* outcome: how the completion promise was settled for the awaiting caller).
Cur ==
    [isPlaying |-> isPlaying, isPaused |-> isPaused, currentText |-> currentText,
     chunks |-> chunks, currentChunkIndex |-> currentChunkIndex, sessionId |-> sessionId,
     playbackPromise |-> playbackPromise, currentPreferences |-> currentPreferences,
     chunkStartPrefs |-> chunkStartPrefs, overrideFirstChunk |-> overrideFirstChunk,
     isInitiatingPlayback |-> isInitiatingPlayback, engine |-> engine,
     spoke |-> FALSE, resolved |-> FALSE, outcome |-> None]

PlayState == IF isPaused THEN "Paused" ELSE IF isPlaying THEN "Playing" ELSE "Idle"

\* prefs.rate ?? 1.0, in tenths
RateOf(p) == IF "rate" \in DOMAIN p THEN p.rate ELSE 10

\* ------------------------------------------------------------------ speech engine (expo-speech)

\* Speech.speak(textToSpeak, options): the utterance joins the engine's queue
SpeechSpeak(c, u) == [c EXCEPT !.engine = Append(@, u), !.spoke = TRUE]

\* Speech.stop(): every utterance not yet finished is cancelled; its terminal
\* callback is still owed and is delivered later
SpeechStop(c) ==
    [c EXCEPT !.engine = [i \in DOMAIN @ |-> [@[i] EXCEPT !.st = "stopped"]]]

FirstWith(q, st) ==
    LET s == {i \in DOMAIN q : q[i].st = st}
    IN  IF s = {} THEN 0 ELSE CHOOSE i \in s : \A j \in s : i <= j

\* Speech.pause(): the utterance being spoken is suspended
SpeechPause(c) ==
    LET i == FirstWith(c.engine, "speaking")
    IN  IF i = 0 THEN c ELSE [c EXCEPT !.engine[i].st = "paused"]

\* Speech.resume(): a suspended utterance continues; nothing happens without one
SpeechResume(c) ==
    LET i == FirstWith(c.engine, "paused")
    IN  IF i = 0 THEN c ELSE [c EXCEPT !.engine[i].st = "speaking"]

\* history: a playback-affecting call is made; the utterances issued before it are old
MarkSuperseded(c, call) ==
    [c EXCEPT !.engine = [i \in DOMAIN @ |-> [@[i] EXCEPT !.old = TRUE]]]

\* ------------------------------------------------------------------ controller internals

\* playbackResolve?.(): the promise is created with a resolve function only
\* (line 175) and is settled by resolve() with no value (line 179)
playbackResolve(c) ==
    IF c.playbackPromise
    THEN [c EXCEPT !.playbackPromise = FALSE, !.resolved = TRUE, !.outcome = "fulfilled"]
    ELSE c

ensurePlaybackPromise(c) == [c EXCEPT !.playbackPromise = TRUE]

IsBlank(s) == \A i \in DOMAIN s : IsSpace(s[i])

speakChunkChain(c, startIndex, sid) ==
    IF sid # c.sessionId THEN c
    ELSE IF startIndex >= Len(c.chunks)
    THEN playbackResolve([c EXCEPT !.isPlaying = FALSE, !.isPaused = FALSE,
                                   !.currentChunkIndex = 0])
    ELSE LET c1 == [c EXCEPT !.currentChunkIndex = startIndex, !.isPlaying = TRUE,
                             !.isPaused = FALSE]
             prefs == c1.currentPreferences
             useOverride == c1.overrideFirstChunk # NoText /\ startIndex = c1.currentChunkIndex
             textToSpeak == IF useOverride THEN c1.overrideFirstChunk
                            ELSE c1.chunks[startIndex + 1]
             c2 == IF useOverride THEN [c1 EXCEPT !.overrideFirstChunk = NoText] ELSE c1
         IN  IF IsBlank(textToSpeak) THEN c2
             ELSE SpeechSpeak([c2 EXCEPT !.chunkStartPrefs = prefs],
                              [sid |-> sid, idx |-> startIndex, text |-> textToSpeak,
                               st |-> "speaking", old |-> FALSE])

\* an onDone without the session-id guard
onDoneUnfenced(c, u) ==
    IF c.isPaused THEN c
    ELSE LET c1 == [c EXCEPT !.chunkStartPrefs = NoRec]
         IN  IF u.idx + 1 < Len(c1.chunks)
             THEN speakChunkChain(c1, u.idx + 1, c1.sessionId)
             ELSE playbackResolve([c1 EXCEPT !.isPlaying = FALSE, !.isPaused = FALSE,
                                             !.currentChunkIndex = 0])

\* an onDone that leaves the position at the last chunk when the story ends
onDoneKeepsIndex(c, u) ==
    IF u.sid # c.sessionId THEN c
    ELSE IF c.isPaused THEN c
    ELSE LET c1 == [c EXCEPT !.chunkStartPrefs = NoRec]
         IN  IF u.idx + 1 < Len(c1.chunks)
             THEN speakChunkChain(c1, u.idx + 1, u.sid)
             ELSE playbackResolve([c1 EXCEPT !.isPlaying = FALSE, !.isPaused = FALSE])

\* options.onDone of the utterance u
onDone(c, u) ==
    IF u.sid # c.sessionId THEN c
    ELSE IF c.isPaused THEN c
    ELSE LET c1 == [c EXCEPT !.chunkStartPrefs = NoRec]
         IN  IF u.idx + 1 < Len(c1.chunks)
             THEN speakChunkChain(c1, u.idx + 1, u.sid)
             ELSE playbackResolve([c1 EXCEPT !.isPlaying = FALSE, !.isPaused = FALSE,
                                             !.currentChunkIndex = 0])

\* options.onStopped of the utterance u
onStopped(c, u) ==
    IF u.sid # c.sessionId THEN c
    ELSE LET c1 == [c EXCEPT !.isPlaying = FALSE, !.chunkStartPrefs = NoRec]
         IN  IF ~c1.isPaused THEN playbackResolve(c1) ELSE c1

\* an onError that speaks the failed chunk again
onErrorRetries(c, u) ==
    IF u.sid # c.sessionId THEN c
    ELSE speakChunkChain([c EXCEPT !.chunkStartPrefs = NoRec], u.idx, u.sid)

\* options.onError of the utterance u
onError(c, u) ==
    IF u.sid # c.sessionId THEN c
    ELSE playbackResolve([c EXCEPT !.isPlaying = FALSE, !.chunkStartPrefs = NoRec])

\* ------------------------------------------------------------------ steps

\* history record of a step: the operation; for speakText, restartSpeech and
\* setPreferences the arguments (and the elapsed time read by setPreferences); for
\* restartSpeech the play state and chunk index it was called in; for a callback
\* the chunk (k) of its utterance, whether its session id is stale and whether a
\* playback-affecting call was made after the utterance was issued (old); and
\* whether the step called Speech.speak (spoke) or resolved the promise, and
\* with which outcome
Ev(op) ==
    [op |-> op, text |-> NoText, prefs |-> NoRec, ms |-> 0, from |-> None, k |-> -1,
     spoke |-> FALSE, resolved |-> FALSE, outcome |-> None, stale |-> FALSE,
     old |-> FALSE]

\* a suspended async call: what its continuation needs (sid, idx, wasActive, ok)
\* and, as history for restartSpeech, the state it was called in
Task(op) ==
    [op |-> op, sid |-> 0, idx |-> 0, wasActive |-> FALSE, ok |-> FALSE,
     from |-> None, k |-> -1]

PendingSeeks == Cardinality({i \in DOMAIN tasks : tasks[i].op = "seek"})

\* a call that increments sessionId (now or in its continuation) may be issued
CanBump == sessionId + PendingSeeks < limits.session

CanSuspend == Len(tasks) < limits.tasks

\* the new values of all variables, from the record a handler returns
Commit(c, newTasks, e, pa) ==
    /\ Len(c.engine) <= limits.engine
    /\ isPlaying' = c.isPlaying
    /\ isPaused' = c.isPaused
    /\ currentText' = c.currentText
    /\ chunks' = c.chunks
    /\ currentChunkIndex' = c.currentChunkIndex
    /\ sessionId' = c.sessionId
    /\ playbackPromise' = c.playbackPromise
    /\ currentPreferences' = c.currentPreferences
    /\ chunkStartPrefs' = c.chunkStartPrefs
    /\ overrideFirstChunk' = c.overrideFirstChunk
    /\ isInitiatingPlayback' = c.isInitiatingPlayback
    /\ engine' = c.engine
    /\ tasks' = newTasks
    /\ ev' = [e EXCEPT !.spoke = c.spoke, !.resolved = c.resolved,
                       !.outcome = c.outcome]
    /\ pauseAt' = pa
    /\ UNCHANGED <<platform, limits>>

InitState ==
    /\ platform \in {"android", "ios"}
    /\ isPlaying = FALSE
    /\ isPaused = FALSE
    /\ currentText = NoText
    /\ chunks = <<>>
    /\ currentChunkIndex = 0
    /\ sessionId = 0
    /\ playbackPromise = FALSE
    /\ currentPreferences = [rate |-> 10]
    /\ chunkStartPrefs = NoRec
    /\ overrideFirstChunk = NoText
    /\ isInitiatingPlayback = FALSE
    /\ engine = <<>>
    /\ tasks = <<>>
    /\ ev = Ev("init")
    /\ pauseAt = -1

Init ==
    /\ InitState
    /\ limits = [session |-> MaxSession, tasks |-> MaxTasks, engine |-> MaxEngine]

InitWide ==
    /\ InitState
    /\ limits = [session |-> WideSession, tasks |-> WideTasks, engine |-> WideEngine]

\* ---- speakText (lines 294-361)

\* preferences merged into the stored ones: { ...currentPreferences, ...preferences }
WithPrefsMerged(c, preferences) ==
    IF preferences # NoPrefs
    THEN LET stored == c.currentPreferences
         IN  [c EXCEPT !.currentPreferences =
                  [f \in DOMAIN stored \cup DOMAIN preferences |->
                       IF f \in DOMAIN preferences THEN preferences[f] ELSE stored[f]]]
    ELSE c

\* `if (preferences) currentPreferences = { ...preferences }`
WithPrefs(c, preferences) ==
    IF preferences # NoPrefs THEN [c EXCEPT !.currentPreferences = preferences] ELSE c

\* the call is the second of two speakText calls with the same arguments in one tick
IsDuplicate(text, preferences) ==
    ev.op \in {"speakText", "speakTextDup"} /\ ev.text = text /\ ev.prefs = preferences

\* a guard placed inside the try block: the ignored call's finally releases the flag
IgnoredClearsFlag(op) ==
    /\ op \in {"speakText", "resumeSpeech", "restartSpeech"}
    /\ isInitiatingPlayback
    /\ Commit([Cur EXCEPT !.isInitiatingPlayback = FALSE], tasks,
              Ev(IF op = "speakText" THEN "speakTextIgnored"
                 ELSE IF op = "resumeSpeech" THEN "resumeSpeechIgnored"
                 ELSE "restartSpeechIgnored"),
              IF op = "resumeSpeech" THEN pauseAt ELSE -1)

\* lines 296-299, 382-385, 432-435: a call made while another one is in its setup
Ignored(op) ==
    /\ op \in {"speakText", "resumeSpeech", "restartSpeech"}
    /\ isInitiatingPlayback
    /\ Commit(Cur, tasks,
              Ev(IF op = "speakText" THEN "speakTextIgnored"
                 ELSE IF op = "resumeSpeech" THEN "resumeSpeechIgnored"
                 ELSE "restartSpeechIgnored"),
              IF op = "resumeSpeech" THEN pauseAt ELSE -1)

\* lines 305-308: paused on the same text; the nested resumeSpeech() finds
\* isInitiatingPlayback set by this very call and returns at once
SpeakTextPaused(text, preferences) ==
    /\ ~isInitiatingPlayback
    /\ isPaused /\ currentText = text
    /\ Commit(Cur, tasks,
              [Ev("speakTextResume") EXCEPT !.text = text, !.prefs = preferences], -1)

\* lines 310-357 up to `if (isPlaying) await Speech.stop()`
speakTextSetup(c, text, preferences) ==
    LET isSameText == c.currentText = text /\ Len(c.chunks) > 0
        c1 == IF isSameText
              THEN [WithPrefs(c, preferences) EXCEPT
                        !.currentChunkIndex = 0, !.isPaused = FALSE,
                        !.sessionId = @ + 1]
              ELSE WithPrefs([c EXCEPT !.currentText = text, !.chunks = buildChunks(text),
                                       !.currentChunkIndex = 0, !.isPaused = FALSE,
                                       !.sessionId = @ + 1], preferences)
    IN  c1

\* lines 330-333 and 354-359: `const sid = sessionId` is read after the await
speakTextFinish(c) ==
    [speakChunkChain(ensurePlaybackPromise(c), 0, c.sessionId) EXCEPT
        !.isInitiatingPlayback = FALSE]

SpeakText(text, preferences) ==
    /\ ~isInitiatingPlayback
    /\ ~(isPaused /\ currentText = text)
    /\ CanBump
    /\ LET dup == IsDuplicate(text, preferences)
           e == [Ev(IF dup THEN "speakTextDup" ELSE "speakText") EXCEPT
                     !.text = text, !.prefs = preferences]
           c0 == MarkSuperseded([Cur EXCEPT !.isInitiatingPlayback = TRUE], "speakText")
           c1 == speakTextSetup(c0, text, preferences)
       IN  IF c1.isPlaying
           THEN /\ CanSuspend
                /\ Commit(SpeechStop(c1),
                          Append(tasks, Task(IF dup THEN "speakTextDup" ELSE "speakText")),
                          e, -1)
           ELSE Commit(speakTextFinish(c1), tasks, e, -1)

SpeakTextCont ==
    /\ tasks # <<>> /\ Head(tasks).op \in {"speakText", "speakTextDup"}
    /\ Commit(speakTextFinish(Cur), Tail(tasks),
              Ev(IF Head(tasks).op = "speakTextDup" THEN "speakTextDupDone"
                 ELSE "speakTextDone"),
              -1)

\* ---- pauseSpeech (lines 363-378)

\* a pause that leaves isPlaying set
pauseSpeechKeepsPlaying(c, pauseThrows) ==
    LET c1 == [c EXCEPT !.isPaused = TRUE]
    IN  IF platform # "android"
        THEN IF pauseThrows THEN SpeechStop(c1) ELSE SpeechPause(c1)
        ELSE SpeechStop(c1)

\* a pause that forgets the position
pauseSpeechResetsIndex(c, pauseThrows) ==
    LET c1 == [c EXCEPT !.isPaused = TRUE, !.isPlaying = FALSE, !.currentChunkIndex = 0]
    IN  IF platform # "android"
        THEN IF pauseThrows THEN SpeechStop(c1) ELSE SpeechPause(c1)
        ELSE SpeechStop(c1)

pauseSpeech(c, pauseThrows) ==
    LET c1 == [c EXCEPT !.isPaused = TRUE, !.isPlaying = FALSE]
    IN  IF platform # "android"
        THEN IF pauseThrows THEN SpeechStop(c1) ELSE SpeechPause(c1)
        ELSE SpeechStop(c1)

\* history: the session is playing chunk k of n >= 3, one utterance for it is
\* being spoken and no call is in its setup
PlayingCleanly ==
    /\ isPlaying /\ ~isPaused /\ tasks = <<>> /\ Len(chunks) >= 3
    /\ overrideFirstChunk = NoText
    /\ Len(engine) = 1
    /\ engine[1].st = "speaking" /\ engine[1].sid = sessionId
    /\ engine[1].idx = currentChunkIndex
    /\ engine[1].text = chunks[currentChunkIndex + 1]

PauseSpeech ==
    \* Speech.pause() is an async function: a failure is a rejected promise, not a throw
    Commit(pauseSpeech(Cur, FALSE), tasks, Ev("pauseSpeech"),
           IF PlayingCleanly THEN currentChunkIndex
           ELSE IF isPaused THEN pauseAt ELSE -1)

\* ---- resumeSpeech (lines 380-428)

\* a resumeSpeech that takes the re-entrancy flag before it finds nothing loaded
ResumeNoTextHoldsFlag ==
    /\ ~isInitiatingPlayback
    /\ (currentText = NoText \/ Len(chunks) = 0)
    /\ Commit([Cur EXCEPT !.isInitiatingPlayback = TRUE], tasks, Ev("resumeNoText"), -1)

\* lines 387-390
ResumeNoText ==
    /\ ~isInitiatingPlayback
    /\ (currentText = NoText \/ Len(chunks) = 0)
    /\ Commit(Cur, tasks, Ev("resumeNoText"), -1)

\* lines 392-402, up to `await Speech.stop()`
ResumeSpeech ==
    /\ ~isInitiatingPlayback
    /\ ~(currentText = NoText \/ Len(chunks) = 0)
    /\ CanSuspend
    /\ Commit(SpeechStop(MarkSuperseded([Cur EXCEPT !.isInitiatingPlayback = TRUE],
                                        "resumeSpeech")),
              Append(tasks, [Task("resume") EXCEPT !.idx = currentChunkIndex]),
              Ev("resumeSpeech"), pauseAt)

\* a manual resume that opens a new session, as before the fix of TTS_RESUME_FIX.md
resumeManualBumps(c, resumeChunkIndex) ==
    LET c1 == [c EXCEPT !.sessionId = @ + 1]
    IN  [ensurePlaybackPromise(speakChunkChain(c1, resumeChunkIndex, c1.sessionId)) EXCEPT
            !.isInitiatingPlayback = FALSE]

\* lines 419-426: manual resume from the saved index with the current sessionId
resumeManual(c, resumeChunkIndex) ==
    [ensurePlaybackPromise(speakChunkChain(c, resumeChunkIndex, c.sessionId)) EXCEPT
        !.isInitiatingPlayback = FALSE]

\* lines 405-410 (up to `await Speech.resume()`), or lines 405-406 and 419-426 on android
ResumeAfterStop ==
    /\ tasks # <<>> /\ Head(tasks).op = "resume"
    /\ LET t == Head(tasks)
           c1 == [Cur EXCEPT !.isPaused = FALSE, !.isPlaying = TRUE]
       IN  IF platform # "android"
           THEN \E ok \in BOOLEAN :
                    Commit(IF ok THEN SpeechResume(c1) ELSE c1,
                           Append(Tail(tasks), [t EXCEPT !.op = "resume2", !.ok = ok]),
                           Ev("resumeAfterStop"), pauseAt)
           ELSE Commit(resumeManual(c1, t.idx), Tail(tasks),
                       Ev("resumeManual"), -1)

\* lines 411-412 when Speech.resume() resolved, lines 413-426 when it rejected
ResumeAfterNative ==
    /\ tasks # <<>> /\ Head(tasks).op = "resume2"
    /\ LET t == Head(tasks)
       IN  IF t.ok
           THEN Commit([ensurePlaybackPromise(Cur) EXCEPT !.isInitiatingPlayback = FALSE],
                       Tail(tasks),
                       Ev("resumeNative"), -1)
           ELSE Commit(resumeManual(Cur, t.idx), Tail(tasks),
                       Ev("resumeManual"), -1)

\* ---- restartSpeech (lines 430-466)

\* lines 437-457, up to `await Speech.stop()`
restartSetup(c, text, preferences) ==
    SpeechStop(WithPrefs([c EXCEPT !.isInitiatingPlayback = TRUE, !.currentText = text,
                                   !.chunks = buildChunks(text), !.currentChunkIndex = 0,
                                   !.isPaused = FALSE, !.sessionId = @ + 1],
                         preferences))

\* a restartSpeech that keeps the flag until the completion promise settles
restartFinishHoldsFlag(c) ==
    speakChunkChain(ensurePlaybackPromise(c), 0, c.sessionId)

\* lines 459-465
restartFinish(c) ==
    [speakChunkChain(ensurePlaybackPromise(c), 0, c.sessionId) EXCEPT
        !.isInitiatingPlayback = FALSE]

RestartSpeech(text, preferences) ==
    /\ ~isInitiatingPlayback
    /\ CanBump /\ CanSuspend
    /\ Commit(restartSetup(MarkSuperseded(Cur, "restartSpeech"), text, preferences),
              Append(tasks, [Task("restart") EXCEPT !.from = PlayState,
                                                    !.k = currentChunkIndex]),
              [Ev("restartSpeech") EXCEPT !.from = PlayState, !.k = currentChunkIndex,
                                          !.text = text, !.prefs = preferences],
              -1)

RestartCont ==
    /\ tasks # <<>> /\ Head(tasks).op = "restart"
    /\ LET t == Head(tasks)
       IN  Commit(restartFinish(Cur), Tail(tasks),
                  [Ev("restartDone") EXCEPT !.from = t.from, !.k = t.k], -1)

\* ---- seekToChunk (lines 468-490)

\* lines 469-470: nothing loaded, or the index is out of range
SeekRejected(chunkIndex) ==
    /\ \/ currentText = NoText
       \/ Len(chunks) = 0
       \/ chunkIndex < 0
       \/ chunkIndex >= Len(chunks)
    /\ Commit(Cur, tasks, Ev("seekRejected"), -1)

\* lines 472-477, up to `await Speech.stop()`
SeekToChunk(chunkIndex) ==
    /\ ~(currentText = NoText \/ Len(chunks) = 0)
    /\ ~(chunkIndex < 0 \/ chunkIndex >= Len(chunks))
    /\ CanBump /\ CanSuspend
    /\ Commit(SpeechStop(MarkSuperseded(Cur, "seekToChunk")),
              Append(tasks, [Task("seek") EXCEPT !.idx = chunkIndex,
                                                 !.wasActive = isPlaying \/ isPaused]),
              Ev("seekToChunk"), -1)

\* lines 479-489
seekFinish(c, chunkIndex, wasActive) ==
    LET c1 == [c EXCEPT !.currentChunkIndex = chunkIndex, !.isPaused = FALSE,
                        !.sessionId = @ + 1]
    IN  IF wasActive
        THEN speakChunkChain(ensurePlaybackPromise(c1), chunkIndex, c1.sessionId)
        ELSE c1

SeekCont ==
    /\ tasks # <<>> /\ Head(tasks).op = "seek"
    /\ LET t == Head(tasks)
       IN  Commit(seekFinish(Cur, t.idx, t.wasActive), Tail(tasks),
                  Ev("seekDone"), -1)

\* ---- setPreferences (lines 492-544)

\* chunkText.split(/\s+/).filter(Boolean)
RECURSIVE WordsFrom(_, _, _, _)
WordsFrom(s, i, cur, acc) ==
    IF i > Len(s) THEN IF cur # <<>> THEN Append(acc, cur) ELSE acc
    ELSE IF IsSpace(s[i])
         THEN WordsFrom(s, i + 1, <<>>, IF cur # <<>> THEN Append(acc, cur) ELSE acc)
         ELSE WordsFrom(s, i + 1, Append(cur, s[i]), acc)

Words(s) == WordsFrom(s, 1, <<>>, <<>>)

\* words.join(' ')
RECURSIVE Join(_)
Join(ws) ==
    IF Len(ws) = 0 THEN <<>>
    ELSE IF Len(ws) = 1 THEN ws[1]
    ELSE ws[1] \o <<" ">> \o Join(Tail(ws))

Min(a, b) == IF a < b THEN a ELSE b

\* an estimate that keeps the last word counted as spoken in the remainder
estimateResumeRepeatsWord(c, elapsedMs) ==
    IF /\ c.chunkStartPrefs # NoRec
       /\ c.currentChunkIndex < Len(c.chunks)
       /\ c.chunks[c.currentChunkIndex + 1] # <<>>
    THEN LET words == Words(c.chunks[c.currentChunkIndex + 1])
             totalWords == IF Len(words) = 0 THEN 1 ELSE Len(words)
             wordsSpoken == (elapsedMs * 3 * RateOf(c.chunkStartPrefs)) \div 10000
         IN  IF wordsSpoken >= totalWords
             THEN [c EXCEPT !.currentChunkIndex = Min(@ + 1, Len(c.chunks) - 1)]
             ELSE IF wordsSpoken > 0
             THEN LET remainingText ==
                          Trim(Join(SubSeq(words, wordsSpoken, Len(words))))
                  IN  IF Len(remainingText) > 0
                      THEN [c EXCEPT !.overrideFirstChunk = remainingText]
                      ELSE c
             ELSE c
    ELSE c

\* lines 503-529: estimate how much of the chunk in flight has been spoken
estimateResume(c, elapsedMs) ==
    IF /\ c.chunkStartPrefs # NoRec
       /\ c.currentChunkIndex < Len(c.chunks)
       /\ c.chunks[c.currentChunkIndex + 1] # <<>>
    THEN LET words == Words(c.chunks[c.currentChunkIndex + 1])
             totalWords == IF Len(words) = 0 THEN 1 ELSE Len(words)
             wordsSpoken == (elapsedMs * 3 * RateOf(c.chunkStartPrefs)) \div 10000
         IN  IF wordsSpoken >= totalWords
             THEN [c EXCEPT !.currentChunkIndex = Min(@ + 1, Len(c.chunks) - 1)]
             ELSE IF wordsSpoken > 0
             THEN LET remainingText ==
                          Trim(Join(SubSeq(words, wordsSpoken + 1, Len(words))))
                  IN  IF Len(remainingText) > 0
                      THEN [c EXCEPT !.overrideFirstChunk = remainingText]
                      ELSE c
             ELSE c
    ELSE c

\* a setPreferences that opens a new session also when nothing is playing or paused
SetPreferencesIdleBumps(preferences) ==
    /\ ~isPlaying /\ ~isPaused
    /\ CanBump
    /\ Commit([Cur EXCEPT !.currentPreferences = preferences, !.sessionId = @ + 1], tasks,
              [Ev("setPreferencesIdle") EXCEPT !.prefs = preferences], -1)

\* lines 494-498: nothing is playing or paused
SetPreferencesIdle(preferences) ==
    /\ ~isPlaying /\ ~isPaused
    /\ Commit([Cur EXCEPT !.currentPreferences = preferences], tasks,
              [Ev("setPreferencesIdle") EXCEPT !.prefs = preferences], -1)

\* lines 494-540, up to `await Speech.stop()`
setPreferencesSetup(c, preferences, elapsedMs) ==
    LET c1 == estimateResume([c EXCEPT !.currentPreferences = preferences], elapsedMs)
    IN  SpeechStop([c1 EXCEPT !.sessionId = @ + 1])

SetPreferences(preferences, elapsedMs) ==
    /\ isPlaying \/ isPaused
    /\ CanBump /\ CanSuspend
    /\ Commit(setPreferencesSetup(MarkSuperseded(Cur, "setPreferences"), preferences,
                                  elapsedMs),
              Append(tasks, [Task("setPreferences") EXCEPT !.sid = sessionId + 1]),
              [Ev("setPreferences") EXCEPT !.prefs = preferences, !.ms = elapsedMs], -1)

\* lines 541-543: `sid` was read before the await, currentChunkIndex is read after it
setPreferencesFinish(c, sid) ==
    speakChunkChain(ensurePlaybackPromise(c), c.currentChunkIndex, sid)

SetPreferencesCont ==
    /\ tasks # <<>> /\ Head(tasks).op = "setPreferences"
    /\ LET t == Head(tasks)
       IN  Commit(setPreferencesFinish(Cur, t.sid), Tail(tasks),
                  Ev("setPreferencesDone"), -1)

\* ---- the engine delivers the terminal callback of its oldest utterance

Handlers == {"onDone", "onStopped", "onError"}

\* An utterance being spoken ends with onDone or onError; a cancelled one with
\* onStopped, or with the onDone that was already queued when stop() arrived;
\* a suspended one ends only once it is resumed or stopped.
Deliverable(u, h) ==
    \/ h = "onDone" /\ u.st \in {"speaking", "stopped"}
    \/ h = "onStopped" /\ u.st = "stopped"
    \/ h = "onError" /\ u.st = "speaking"

Deliver(h) ==
    /\ engine # <<>>
    /\ Deliverable(Head(engine), h)
    /\ LET u == Head(engine)
           c == [Cur EXCEPT !.engine = Tail(engine)]
           c1 == IF h = "onDone" THEN onDone(c, u)
                 ELSE IF h = "onStopped" THEN onStopped(c, u)
                 ELSE onError(c, u)
       IN  Commit(c1, tasks,
                  [Ev(h) EXCEPT !.k = u.idx, !.stale = u.sid # sessionId, !.old = u.old],
                  pauseAt)

\* ------------------------------------------------------------------ specification

Next ==
    \/ \E op \in {"speakText", "resumeSpeech", "restartSpeech"} : Ignored(op)
    \/ \E t \in Texts, p \in PrefArgs \cup {NoPrefs} : SpeakTextPaused(t, p)
    \/ \E t \in Texts, p \in PrefArgs \cup {NoPrefs} : SpeakText(t, p)
    \/ SpeakTextCont
    \/ PauseSpeech
    \/ ResumeNoText
    \/ ResumeSpeech
    \/ ResumeAfterStop
    \/ ResumeAfterNative
    \/ \E t \in Texts, p \in PrefArgs \cup {NoPrefs} : RestartSpeech(t, p)
    \/ RestartCont
    \/ \E i \in -1..3 : SeekRejected(i)
    \/ \E i \in 0..2 : SeekToChunk(i)
    \/ SeekCont
    \/ \E p \in PrefArgs : SetPreferencesIdle(p)
    \/ \E p \in PrefArgs, ms \in ElapsedMs : SetPreferences(p, ms)
    \/ SetPreferencesCont
    \/ \E h \in Handlers : Deliver(h)

Spec == Init /\ [][Next]_vars

SpecWide == InitWide /\ [][Next]_vars

\* ---- liveness: the event loop runs every continuation whose await has
\* completed, and the engine delivers a terminal callback for every utterance
\* that is being spoken or was stopped

Fairness ==
    /\ WF_vars(SpeakTextCont)
    /\ WF_vars(ResumeAfterStop)
    /\ WF_vars(ResumeAfterNative)
    /\ WF_vars(RestartCont)
    /\ WF_vars(SeekCont)
    /\ WF_vars(SetPreferencesCont)
    /\ WF_vars(\E h \in Handlers : Deliver(h))

SpecLive == Init /\ [][Next]_vars /\ Fairness

\* ---- the chunker alone: a text is drawn, buildChunks is applied to it

InitChunker ==
    /\ platform \in {"android", "ios"}
    /\ isPlaying = FALSE
    /\ isPaused = FALSE
    /\ currentText = NoText
    /\ chunks = <<>>
    /\ currentChunkIndex = 0
    /\ sessionId = 0
    /\ playbackPromise = FALSE
    /\ currentPreferences = [rate |-> 10]
    /\ chunkStartPrefs = NoRec
    /\ overrideFirstChunk = NoText
    /\ isInitiatingPlayback = FALSE
    /\ engine = <<>>
    /\ tasks = <<>>
    /\ \E t \in ChunkerTexts : ev = [Ev("text") EXCEPT !.text = t]
    /\ pauseAt = -1
    /\ limits = [session |-> MaxSession, tasks |-> MaxTasks, engine |-> MaxEngine]

\* `currentText = text; chunks = buildChunks(text)`
BuildChunks ==
    /\ ev.op = "text"
    /\ currentText' = ev.text
    /\ chunks' = buildChunks(ev.text)
    /\ ev' = [Ev("buildChunks") EXCEPT !.text = ev.text]
    /\ UNCHANGED <<platform, isPlaying, isPaused, currentChunkIndex, sessionId,
                   playbackPromise, currentPreferences, chunkStartPrefs,
                   overrideFirstChunk, isInitiatingPlayback, engine, tasks, pauseAt,
                   limits>>

NextChunker == BuildChunks

SpecChunker == InitChunker /\ [][NextChunker]_vars

\* ------------------------------------------------------------------ properties

Last(q) == q[Len(q)]

\* an utterance of chunk k of the current session is being narrated
Narrating(k) ==
    \E i \in DOMAIN engine :
        /\ engine[i].st = "speaking" /\ engine[i].sid = sessionId
        /\ engine[i].idx = k /\ engine[i].text = chunks[k + 1]

ResumeFinished == {"resumeManual", "resumeNative"}

SpeakTextCalls == {"speakText", "speakTextDup"}

\* C1: a session playing chunk k of n >= 3 chunks is paused and then resumed
\* (only engine callbacks in between): when resumeSpeech has finished,
\* currentChunkIndex is k and the engine is narrating chunk k, whether the
\* platform pauses natively or by stopping.
C1_PauseResumeKeepsPosition ==
    [][(ev'.op \in ResumeFinished /\ pauseAt >= 0) =>
           /\ currentChunkIndex' = pauseAt
           /\ Narrating(pauseAt)'
           /\ (ev'.spoke => Last(engine').idx = pauseAt)]_vars

\* C2: speakText(text) called while the session is Paused on that same text
\* resumes it: when the call has returned the session is Playing and the chunk
\* at the preserved currentChunkIndex is being narrated.
C2_PlayWhilePausedResumes ==
    ev.op = "speakTextResume" => isPlaying /\ ~isPaused /\ Narrating(currentChunkIndex)

\* C3: a speakText call that repeats, in the same tick, the speakText call just
\* made with the same arguments starts no chunk chain: it never hands an
\* utterance to the engine, neither at once nor when its setup completes.
C3_DuplicatePlayStartsNoChain ==
    ev.op \in {"speakTextDup", "speakTextDupDone"} => ~ev.spoke

\* C4: a callback (onDone, onStopped, onError) of an utterance whose session id
\* has been superseded, as by a restartSpeech issued before the callback fires,
\* changes no controller state, issues no speak call and resolves nothing.
C4_StaleCallbackChangesNothing ==
    [][(ev'.op \in Handlers /\ ev'.stale) =>
           UNCHANGED ctrl /\ ~ev'.spoke /\ ~ev'.resolved]_vars

C4_Witness ==
    /\ ev.op = "onDone" /\ ev.stale /\ ev.k = 0
    /\ tasks # <<>> /\ Head(tasks).op = "restart"
    /\ sessionId = 2 /\ currentChunkIndex = 0

\* C5: once a playback-affecting call (speakText, resumeSpeech, restartSpeech,
\* seekToChunk, setPreferences on an active session) has been made, no callback
\* of an utterance issued before it advances the chunk index, changes the play
\* state, resolves the completion promise or starts another utterance.
C5_NewCallInvalidatesOldCallbacks ==
    [][(ev'.op \in Handlers /\ ev'.old) =>
           /\ UNCHANGED <<currentChunkIndex, isPlaying, isPaused, playbackPromise>>
           /\ ~ev'.spoke /\ ~ev'.resolved]_vars

\* C6: an accepted restartSpeech(text, prefs), from Idle, Playing or Paused and
\* for the loaded text as for another one, recomputes chunks from text, sets
\* currentChunkIndex to 0, increments sessionId and stops the engine; when its
\* setup completes the position is 0 and the utterance it hands to the engine is
\* chunk 0 of text.
C6_RestartBeginsAtChunkZero ==
    [][/\ ev'.op = "restartSpeech" =>
              /\ currentText' = ev'.text /\ chunks' = buildChunks(ev'.text)
              /\ currentChunkIndex' = 0 /\ sessionId' = sessionId + 1
              /\ \A i \in DOMAIN engine' : engine'[i].st = "stopped"
       /\ ev'.op = "restartDone" =>
              /\ chunks' = buildChunks(currentText') /\ currentChunkIndex' = 0
              /\ isPlaying' /\ ~isPaused'
              /\ ev'.spoke /\ Last(engine').idx = 0 /\ Last(engine').sid = sessionId'
              /\ Last(engine').text = chunks'[1]]_vars

\* C7: speakText(newText) called while a session for another text is Paused at
\* chunk k > 0 starts a new session: chunks are those of newText, the position
\* is 0, sessionId is incremented, and when chunk 0 of newText is handed to the
\* engine every utterance of the old text has been stopped.
C7_NewTextWhilePaused ==
    [][(/\ ev'.op \in SpeakTextCalls
        /\ isPaused /\ currentChunkIndex > 0
        /\ currentText # NoText /\ currentText # ev'.text) =>
           /\ chunks' = buildChunks(ev'.text) /\ currentChunkIndex' = 0
           /\ sessionId' = sessionId + 1
           /\ (ev'.spoke =>
                   /\ Last(engine').idx = 0
                   /\ \A i \in 1..(Len(engine') - 1) : engine'[i].st = "stopped")]_vars

\* C8: speakText hands chunk 0 to the engine, the onDone of chunk i makes
\* currentChunkIndex i + 1 and hands chunk i + 1 to the engine, and the onDone of
\* the last chunk leaves the session Idle with currentChunkIndex 0 and the
\* completion promise resolved; in a playback that is not interrupted (no
\* preference change has left a chunk override pending) the text handed over is
\* that of chunk 0, respectively chunk i + 1.
C8_ChainSpeaksChunksInOrder ==
    [][/\ (ev'.op = "speakTextDone" \/ (ev'.op \in SpeakTextCalls /\ tasks' = tasks)) =>
              /\ ev'.spoke /\ currentChunkIndex' = 0 /\ Last(engine').idx = 0
              /\ overrideFirstChunk = NoText => Last(engine').text = chunks'[1]
              /\ playbackPromise'
       /\ (ev'.op = "onDone" /\ ~ev'.stale /\ ~isPaused) =>
              IF ev'.k + 1 < Len(chunks)
              THEN /\ currentChunkIndex' = ev'.k + 1 /\ isPlaying' /\ ~isPaused'
                   /\ ev'.spoke /\ Last(engine').idx = ev'.k + 1
                   /\ overrideFirstChunk = NoText =>
                          Last(engine').text = chunks[ev'.k + 2]
                   /\ ~ev'.resolved
              ELSE /\ ~isPlaying' /\ ~isPaused' /\ currentChunkIndex' = 0
                   /\ ~ev'.spoke /\ ~playbackPromise'
                   /\ (playbackPromise => ev'.resolved)]_vars

C8_Witness ==
    /\ ev.op = "onDone" /\ ~ev.stale /\ ev.k = 2 /\ ev.resolved
    /\ sessionId = 1 /\ Len(chunks) = 3
    /\ ~isPlaying /\ ~isPaused /\ currentChunkIndex = 0 /\ engine = <<>>

\* C9: the completion promise is resolved only when the session has completed,
\* was stopped or failed: never while a chunk of the current session is still
\* being narrated.
C9_PromiseOutlivesNarration ==
    ev.resolved =>
        ~\E i \in DOMAIN engine : engine[i].st = "speaking" /\ engine[i].sid = sessionId

\* C10: pauseSpeech makes the session Paused and leaves currentChunkIndex,
\* chunks, the loaded text, sessionId and the preferences as they were, on
\* every platform.
C10_PauseKeepsPosition ==
    [][ev'.op = "pauseSpeech" =>
           /\ isPaused' /\ ~isPlaying'
           /\ UNCHANGED <<currentChunkIndex, chunks, currentText, sessionId,
                          currentPreferences>>]_vars

C10_Witness ==
    /\ ev.op = "pauseSpeech" /\ isPaused /\ ~isPlaying
    /\ currentChunkIndex = 1 /\ Len(chunks) = 3
    /\ engine # <<>> /\ engine[1].idx = 1

\* the words of text t (maximal runs of non-blank characters), in order
WordList(t) ==
    LET starts == {i \in DOMAIN t : ~IsSpace(t[i]) /\ (i = 1 \/ IsSpace(t[i - 1]))}
        EndOf(i) == CHOOSE j \in i..Len(t) :
                        /\ \A k \in i..j : ~IsSpace(t[k])
                        /\ (j = Len(t) \/ IsSpace(t[j + 1]))
        Nth(n) == CHOOSE i \in starts : Cardinality({j \in starts : j < i}) = n - 1
    IN  [n \in 1..Cardinality(starts) |-> SubSeq(t, Nth(n), EndOf(Nth(n)))]

\* the words w[from..Len(w)] separated by single spaces
RECURSIVE SpacedFrom(_, _)
SpacedFrom(w, from) ==
    IF from > Len(w) THEN <<>>
    ELSE IF from = Len(w) THEN w[from]
    ELSE w[from] \o <<" ">> \o SpacedFrom(w, from + 1)

\* floor(elapsedSeconds * 3 * rate), elapsed in milliseconds and the rate in tenths
EstimatedWords(ms, rate) == (ms * 3 * rate) \div 10000

\* the chunk at currentChunkIndex is being narrated in the current session
MidChunk ==
    /\ isPlaying /\ ~isPaused /\ chunkStartPrefs # NoRec
    /\ currentChunkIndex < Len(chunks)
    /\ \E i \in DOMAIN engine :
           /\ engine[i].st = "speaking" /\ engine[i].sid = sessionId
           /\ engine[i].idx = currentChunkIndex

\* C11: setPreferences(P) called while a chunk of W words is being narrated, with
\* 0 < w < W for w = floor(elapsedSeconds * 3 * rate at the start of the chunk),
\* stores P and keeps as the text to speak the last W - w words of the chunk
\* joined by single spaces; when its engine stop has completed (and no later call
\* has superseded it) the utterance it hands to the engine has exactly that text,
\* is for the same chunk index and is spoken with the new preferences.
C11_LiveChangeSpeaksRemainder ==
    [][/\ (/\ ev'.op = "setPreferences" /\ MidChunk
           /\ EstimatedWords(ev'.ms, RateOf(chunkStartPrefs)) > 0
           /\ EstimatedWords(ev'.ms, RateOf(chunkStartPrefs))
                  < Len(WordList(chunks[currentChunkIndex + 1]))) =>
              /\ overrideFirstChunk' =
                     SpacedFrom(WordList(chunks[currentChunkIndex + 1]),
                                EstimatedWords(ev'.ms, RateOf(chunkStartPrefs)) + 1)
              /\ overrideFirstChunk' # chunks[currentChunkIndex + 1]
              /\ currentPreferences' = ev'.prefs
              /\ currentChunkIndex' = currentChunkIndex
       /\ (/\ ev'.op = "setPreferencesDone" /\ Head(tasks).sid = sessionId
           /\ overrideFirstChunk # NoText) =>
              /\ ev'.spoke
              /\ Last(engine').text = overrideFirstChunk
              /\ Last(engine').idx = currentChunkIndex
              /\ chunkStartPrefs' = currentPreferences
              /\ overrideFirstChunk' = NoText]_vars

C11_Witness ==
    /\ ev.op = "setPreferencesDone" /\ ev.spoke
    /\ currentText = StoryB /\ currentChunkIndex = 0
    /\ Last(engine).text = <<"h", " ", "j", ".">>
    /\ chunkStartPrefs = [voice |-> "v1"] /\ currentPreferences = [voice |-> "v1"]

C13_ErrorReachesCaller ==
    /\ (ev.op = "onError" /\ ~ev.stale /\ ev.resolved) => ev.outcome = "rejected"
    /\ (\/ ev.op \in {"resumeNoText", "seekRejected", "speakTextIgnored",
                      "resumeSpeechIgnored", "restartSpeechIgnored"}
        \/ (ev.op \in Handlers /\ ev.stale)) => ev.outcome = None

\* C14: resumeSpeech() or seekToChunk(i) called when no text is loaded or the
\* chunk list is empty changes no controller variable, makes no engine call,
\* suspends nothing and settles nothing.
C14_NothingLoadedIsNoOp ==
    [][(/\ ev'.op \in {"resumeNoText", "seekRejected"}
        /\ (currentText = NoText \/ Len(chunks) = 0)) =>
           /\ UNCHANGED <<ctrl, engine, tasks>>
           /\ ~ev'.spoke /\ ev'.outcome = None]_vars

C14_Witness ==
    /\ ev.op = "resumeNoText" /\ currentText = NoText /\ chunks = <<>>
    /\ ~isPlaying /\ ~isPaused /\ ~isInitiatingPlayback /\ engine = <<>>

\* C15: seekToChunk(i) with a valid index stops the utterances in flight; when
\* that stop has completed it sets the position to i and increments sessionId,
\* and it hands chunk i to the engine exactly if the session was Playing or
\* Paused when the call was made: otherwise it speaks nothing.
C15_SeekMovesPosition ==
    [][/\ ev'.op = "seekToChunk" =>
              /\ \A i \in DOMAIN engine' : engine'[i].st = "stopped"
              /\ Len(engine') = Len(engine)
              /\ Last(tasks').wasActive = (isPlaying \/ isPaused)
       /\ ev'.op = "seekDone" =>
              /\ sessionId' = sessionId + 1
              /\ IF Head(tasks).wasActive
                 THEN /\ currentChunkIndex' = Head(tasks).idx
                      /\ ev'.spoke /\ isPlaying' /\ ~isPaused'
                      /\ Last(engine').idx = Head(tasks).idx
                      /\ Last(engine').sid = sessionId'
                 ELSE /\ currentChunkIndex' = Head(tasks).idx
                      /\ ~ev'.spoke /\ engine' = engine
                      /\ isPlaying' = isPlaying]_vars

\* C16: sessionId never decreases; every accepted speakText that starts a chain,
\* every accepted restartSpeech and every setPreferences on an active session adds
\* one to it when called, every valid seekToChunk adds one when its stop has
\* completed, and no step of pauseSpeech or resumeSpeech changes it.
C16_SessionIdMonotone ==
    [][ /\ sessionId' >= sessionId
        /\ ev'.op \in {"speakText", "speakTextDup", "restartSpeech", "seekDone",
                       "setPreferences"}
             => sessionId' = sessionId + 1
        /\ ev'.op \in {"pauseSpeech", "resumeSpeech", "resumeAfterStop", "resumeManual",
                       "resumeNative", "resumeNoText", "resumeSpeechIgnored",
                       "speakTextResume"}
             => sessionId' = sessionId
        /\ sessionId' # sessionId
             => ev'.op \in {"speakText", "speakTextDup", "restartSpeech", "seekDone",
                            "setPreferences"}
      ]_vars

\* a manual resume has spoken again in a session that is the second one
C16_Witness ==
    /\ ev.op = "resumeManual" /\ ev.spoke
    /\ sessionId = 2
    /\ Last(engine).sid = 2

\* the calls that replace the stored preferences when they are given some
PrefChanging == {"speakText", "speakTextDup", "restartSpeech", "setPreferences",
                 "setPreferencesIdle"}

\* C17: after a speakText that starts a chain, a restartSpeech or a setPreferences
\* called with preferences P the stored preferences are exactly P (no field of
\* the former ones survives); no other step, and in particular no step of
\* pauseSpeech or resumeSpeech and no speakText that finds the session paused on
\* the same text, changes them; and every utterance is issued with the stored
\* preferences of that moment.
C17_PreferencesReplaced ==
    [][ /\ (ev'.op \in PrefChanging /\ ev'.prefs # NoPrefs)
             => currentPreferences' = ev'.prefs
        /\ currentPreferences' # currentPreferences
             => (ev'.op \in PrefChanging /\ ev'.prefs # NoPrefs)
        /\ ev'.spoke => chunkStartPrefs' = currentPreferences'
      ]_vars

\* a speakText with a voice only has started a chain: no rate is stored any more
C17_Witness ==
    /\ ev.op = "speakText" /\ ev.prefs = [voice |-> "v1"] /\ ev.spoke
    /\ currentPreferences = [voice |-> "v1"]
    /\ DOMAIN currentPreferences = {"voice"}
    /\ chunkStartPrefs = [voice |-> "v1"]

\* C17 as stated: every speakText called with preferences P stores P, also the one
\* that finds the session paused on the same text
C17_EverySpeakTextStores ==
    [][ (ev'.op \in PrefChanging \cup {"speakTextResume"} /\ ev'.prefs # NoPrefs)
             => currentPreferences' = ev'.prefs
      ]_vars

\* C18: setPreferences on a session that is neither playing nor paused replaces the
\* stored preferences and nothing else: sessionId, currentChunkIndex, chunks, the
\* text, the play state, the pending chunk override and the re-entrancy flag are
\* unchanged, the engine receives neither a stop nor a speak, and no continuation
\* is left behind.
C18_IdleSetPreferencesOnlyStores ==
    [][ ev'.op = "setPreferencesIdle"
          => /\ ~isPlaying /\ ~isPaused
             /\ currentPreferences' = ev'.prefs
             /\ UNCHANGED <<isPlaying, isPaused, currentText, chunks, currentChunkIndex,
                            sessionId, playbackPromise, chunkStartPrefs,
                            overrideFirstChunk, isInitiatingPlayback, engine, tasks>>
             /\ ~ev'.spoke /\ ~ev'.resolved
      ]_vars

\* a story was narrated to its end and the preferences were replaced afterwards
C18_Witness ==
    /\ ev.op = "setPreferencesIdle" /\ ev.prefs = [voice |-> "v1"]
    /\ currentPreferences = [voice |-> "v1"]
    /\ ~isPlaying /\ ~isPaused
    /\ currentText # NoText /\ sessionId = 1 /\ currentChunkIndex = 0
    /\ engine = <<>>

\* the suspended calls that hold the re-entrancy flag: speakText, resumeSpeech and
\* restartSpeech between their first statement and the end of their setup
InSetup ==
    {i \in DOMAIN tasks :
        tasks[i].op \in {"speakText", "speakTextDup", "resume", "resume2", "restart"}}

\* C19: the re-entrancy flag is held exactly while one speakText, resumeSpeech or
\* restartSpeech is inside its setup (waiting for the engine's stop or resume):
\* once the call has finished its setup or left early, also after a failed
\* Speech.resume(), the flag is false; a pending completion promise alone never
\* holds it, so with narration in progress and no call in its setup the next
\* speakText or restartSpeech is accepted.
C19_FlagHeldOnlyDuringSetup ==
    /\ isInitiatingPlayback <=> InSetup # {}
    /\ Cardinality(InSetup) <= 1
    /\ (playbackPromise /\ InSetup = {}) => ~isInitiatingPlayback
    /\ ev.op \in {"speakTextDone", "speakTextDupDone", "restartDone", "resumeManual",
                  "resumeNative", "resumeNoText", "speakTextResume", "speakTextIgnored",
                  "resumeSpeechIgnored", "restartSpeechIgnored"}
         => (isInitiatingPlayback <=> ev.op \in {"speakTextIgnored", "resumeSpeechIgnored",
                                                "restartSpeechIgnored"})

\* a restartSpeech called while a chunk was playing has finished its setup: it is
\* narrating, its promise is pending and the flag is free again
C19_Witness ==
    /\ ev.op = "restartDone" /\ ev.from = "Playing" /\ ev.spoke
    /\ isPlaying /\ playbackPromise
    /\ ~isInitiatingPlayback

\* the text has none of the sentence-ending characters
Unpunctuated(t) == \A i \in DOMAIN t : ~IsBoundary(t[i])

CeilDiv(a, b) == (a + b - 1) \div b

\* C20: every chunk that buildChunks produces has at most MAX_CHUNK_LEN
\* characters; and a text that is one sentence without boundary punctuation, of
\* S > MAX_CHUNK_LEN characters once normalized, becomes ceil(S / MAX_CHUNK_LEN)
\* chunks, the consecutive slices of MAX_CHUNK_LEN characters of that sentence.
C20_ChunksWithinMaxLength ==
    ev.op = "buildChunks" =>
        /\ \A i \in DOMAIN chunks : Len(chunks[i]) <= MAX_CHUNK_LEN
        /\ LET sentence == Trim(Collapse(ev.text))
               S == Len(sentence)
           IN  (Unpunctuated(sentence) /\ S > MAX_CHUNK_LEN) =>
                   /\ Len(chunks) = CeilDiv(S, MAX_CHUNK_LEN)
                   /\ \A i \in DOMAIN chunks :
                          chunks[i] = SubSeq(sentence, (i - 1) * MAX_CHUNK_LEN + 1,
                                             Min(i * MAX_CHUNK_LEN, S))

\* a run of 19 letters was cut into slices of 6, 6, 6 and 1
C20_Witness ==
    /\ ev.op = "buildChunks" /\ Len(ev.text) = 19 /\ Unpunctuated(ev.text)
    /\ Len(chunks) = 4
    /\ Len(chunks[1]) = MAX_CHUNK_LEN /\ Len(chunks[4]) = 1

\* the characters of t that are not whitespace, in order
NonSpace(t) == SelectSeq(t, LAMBDA ch : ~IsSpace(ch))

\* the sentences of the text: what lies between the whitespace that follows . ! ?
SentencesOf(t) ==
    LET normalized == Trim(Collapse(t))
    IN  IF normalized = <<>> THEN <<>> ELSE SplitSentences(normalized)

\* C21: for a non-empty text of which no sentence is longer than MAX_CHUNK_LEN, the
\* chunks joined in order by single spaces are the whitespace-normalized text,
\* word for word; and for every non-empty text the characters of the chunks that
\* are not whitespace are those of the text, in order, none lost and none twice
\* (a sentence longer than MAX_CHUNK_LEN is cut every MAX_CHUNK_LEN characters,
\* wherever that falls).
C21_ChunkRoundTrip ==
    (ev.op = "buildChunks" /\ ev.text # <<>>) =>
        /\ NonSpace(SpacedFrom(chunks, 1)) = NonSpace(ev.text)
        /\ (\A i \in DOMAIN SentencesOf(ev.text) :
                Len(SentencesOf(ev.text)[i]) <= MAX_CHUNK_LEN)
             => /\ Trim(Collapse(SpacedFrom(chunks, 1))) = Trim(Collapse(ev.text))
                /\ WordList(SpacedFrom(chunks, 1)) = WordList(ev.text)

\* "aa.  aaa" became the two chunks "aa." and "aaa"
C21_Witness ==
    /\ ev.op = "buildChunks"
    /\ ev.text = <<"a", "a", ".", " ", " ", "a", "a", "a">>
    /\ chunks = << <<"a", "a", ".">>, <<"a", "a", "a">> >>

\* C21 as stated: for every non-empty text the chunks joined in order have the
\* words of the text, none lost, none twice and none split
C21_NoWordSplit ==
    (ev.op = "buildChunks" /\ ev.text # <<>>) =>
        WordList(SpacedFrom(chunks, 1)) = WordList(ev.text)

\* C22: every chunk that buildChunks returns is non-empty and has no leading or
\* trailing whitespace, the slices of an over-long sentence included; and a text
\* that is empty or only whitespace yields no chunk.
C22_ChunksNonEmptyTrimmed ==
    ev.op = "buildChunks" =>
        /\ \A i \in DOMAIN chunks :
               /\ chunks[i] # <<>>
               /\ ~IsSpace(chunks[i][1])
               /\ ~IsSpace(chunks[i][Len(chunks[i])])
        /\ (\A j \in DOMAIN ev.text : IsSpace(ev.text[j])) => chunks = <<>>

\* C23: a speakText, resumeSpeech or restartSpeech made while another such call is
\* in its setup changes nothing: text, chunks, position, sessionId, preferences,
\* play state, promise and pending override stay as they are, the engine receives
\* no call, the suspended call stays suspended and the flag it holds stays set.
C23_ReentrantCallIsNoOp ==
    [][ ev'.op \in {"speakTextIgnored", "resumeSpeechIgnored", "restartSpeechIgnored"}
          => /\ isInitiatingPlayback /\ InSetup # {}
             /\ UNCHANGED <<ctrl, engine, tasks>>
             /\ isInitiatingPlayback'
             /\ ~ev'.spoke /\ ~ev'.resolved
      ]_vars

\* a restartSpeech was ignored while a speakText waits for the engine's stop
C23_Witness ==
    /\ ev.op = "restartSpeechIgnored"
    /\ isInitiatingPlayback
    /\ tasks # <<>> /\ Head(tasks).op = "speakText"
    /\ sessionId = 2

\* C24: setPreferences called while a chunk is being narrated, with an estimate of
\* words spoken that covers the whole chunk, advances currentChunkIndex by exactly
\* one at every position, the last chunk included; there its continuation runs
\* off the end of chunks and completes the session instead of speaking again.
C24_CoveredChunkAdvancesByOne ==
    [][ /\ (/\ ev'.op = "setPreferences" /\ MidChunk
            /\ EstimatedWords(ev'.ms, RateOf(chunkStartPrefs))
                   >= Len(WordList(chunks[currentChunkIndex + 1])))
             => currentChunkIndex' = currentChunkIndex + 1
        /\ (/\ ev'.op = "setPreferencesDone" /\ Head(tasks).sid = sessionId
            /\ currentChunkIndex >= Len(chunks))
             => (~ev'.spoke /\ ~isPlaying' /\ ~isPaused')
      ]_vars

\* t is what remains of chunk c after some of its first words
RemainderOf(t, c) ==
    \E w \in 1..Len(WordList(c)) : t = SpacedFrom(WordList(c), w + 1)

\* C25: the override that setPreferences computes for chunk k is spoken at most
\* once and only in place of chunk k of the text it was computed from: an
\* utterance whose text is not the chunk at its index is issued only by the
\* continuation of setPreferences, for the chunk the session was at, with a
\* remainder of that chunk; and an override is pending only while the
\* setPreferences that computed it waits, unsuperseded, for the engine's stop.
C25_OverrideOnlyForItsChunk ==
    [][ /\ (ev'.spoke /\ Last(engine').text # chunks'[Last(engine').idx + 1])
             => /\ ev'.op = "setPreferencesDone"
                /\ Last(engine').idx = currentChunkIndex
                /\ RemainderOf(Last(engine').text, chunks'[Last(engine').idx + 1])
        /\ overrideFirstChunk' # NoText
             => \E i \in DOMAIN tasks' :
                    tasks'[i].op = "setPreferences" /\ tasks'[i].sid = sessionId'
      ]_vars

\* C26: currentChunkIndex becomes smaller only in a step of restartSpeech, of a
\* speakText that loads a text or replays it from the top, or of seekToChunk, or
\* when playback runs off the end of chunks and the index is reset to 0 with the
\* session Idle; no step of pauseSpeech, resumeSpeech or setPreferences and no
\* onStopped or onError makes it smaller otherwise.
C26_IndexDecreasesOnlyExplicitly ==
    [][ currentChunkIndex' < currentChunkIndex
          => \/ ev'.op \in {"restartSpeech", "restartDone", "speakText", "speakTextDup",
                            "speakTextDone", "speakTextDupDone", "seekDone"}
             \/ /\ currentChunkIndex' = 0
                /\ ~isPlaying' /\ ~isPaused' /\ ~ev'.spoke
      ]_vars

\* C27: whenever chunks is non-empty the position is one of its indices, so that
\* the progress notification built from the state (currentChunkIndex + 1 of
\* chunks.length) has 1 <= currentChunk <= totalChunks and a fraction in [0, 1].
C27_IndexWithinChunks ==
    Len(chunks) > 0 => (0 <= currentChunkIndex /\ currentChunkIndex < Len(chunks))

\* C28: isPlaying and isPaused are never both true: the play state is exactly one
\* of Idle (both false), Playing and Paused.
C28_PlayingAndPausedExclusive ==
    /\ ~(isPlaying /\ isPaused)
    /\ PlayState \in {"Idle", "Playing", "Paused"}
    /\ (PlayState = "Idle") <=> (~isPlaying /\ ~isPaused)
    /\ (PlayState = "Playing") <=> (isPlaying /\ ~isPaused)
    /\ (PlayState = "Paused") <=> (isPaused /\ ~isPlaying)

\* a paused session whose stopped utterance has just reported onStopped
C28_Witness ==
    /\ ev.op = "onStopped" /\ ~ev.stale
    /\ isPaused /\ ~isPlaying
    /\ playbackPromise

\* the utterances whose terminal callback is still owed and would pass the
\* `sid !== sessionId` guard
LiveUtterances == {i \in DOMAIN engine : engine[i].sid = sessionId}

\* C29: at most one chunk chain is live: there are never two outstanding
\* utterances whose callbacks both pass the session-id guard.
C29_OneLiveChain == Cardinality(LiveUtterances) <= 1

\* the steps that are not calls of the user: continuations of suspended calls and
\* engine callbacks
SystemOps == {"speakTextDone", "speakTextDupDone", "resumeAfterStop", "resumeManual",
              "resumeNative", "restartDone", "seekDone", "setPreferencesDone",
              "onDone", "onStopped", "onError"}

\* the session is Idle and no completion promise is pending
Settled == ~isPlaying /\ ~isPaused /\ ~playbackPromise

\* C30: if from some point on the user makes no further call, and the engine
\* delivers a terminal callback for every utterance it was given, then a session
\* that is not left paused eventually is Idle with its completion promise
\* resolved, and stays so; in particular it does not remain Playing with no
\* utterance outstanding.
C30_SessionEventuallySettles ==
    <>[][ev'.op \in SystemOps]_vars => <>[](isPaused \/ Settled)

=============================================================================
